---- MODULE Spec2Model ----
(***************************************************************************)
(* Model of demo_sim.py (EO Strata Demo Simulator): the alert lifecycle    *)
(* ledger (DemoSimulator.sent_alerts and the .demo_sent_alerts.json file), *)
(* the payload builder, the resolve batch and the event filter.            *)
(***************************************************************************)
EXTENDS Integers, Sequences, FiniteSets, TLC

(***************************************************************************)
(* Bounds of the model.                                                    *)
(***************************************************************************)
\* longest ledger the model lets track_sent_alert build
MaxAlerts == 2
\* number of send_to_bigpanda calls (each call advances the clock by one)
MaxClock == 4
\* longest selection the resolve prompt is given
MaxSelect == 2
\* longest raw feed the event filter is given
MaxEvents == 2

(***************************************************************************)
(* Program constants.                                                      *)
(***************************************************************************)
MAX_EVENT_AGE_HOURS == 15

(***************************************************************************)
(* Python values.  A value is a record [t, s, n, o, l]: t is the Python    *)
(* type, s the text of a str, n the number of an int or bool, l the items  *)
(* of a list.  A str that holds a timestamp has s = "iso:offset" (it ends  *)
(* with a +hh:mm offset), "iso:Z" (it ends with Z) or "iso:naive" (it has  *)
(* no offset), with n its wall-clock reading and o its offset.             *)
(***************************************************************************)
Str(s) == [t |-> "str", s |-> s, n |-> 0, o |-> 0, l |-> <<>>]
None == [t |-> "NoneType", s |-> "", n |-> 0, o |-> 0, l |-> <<>>]
PyInt(n) == [t |-> "int", s |-> "", n |-> n, o |-> 0, l |-> <<>>]
PyBool(b) == [t |-> "bool", s |-> "", n |-> IF b THEN 1 ELSE 0, o |-> 0, l |-> <<>>]
PyList(items) == [t |-> "list", s |-> "", n |-> 0, o |-> 0, l |-> items]
IsoText(form, wall, off) == [t |-> "str", s |-> form, n |-> wall, o |-> off, l |-> <<>>]
\* datetime.now(timezone.utc).isoformat() read at instant c: "...+00:00"
IsoFormat(c) == IsoText("iso:offset", c, 0)
\* int(time.time()) read at instant c
EpochSeconds(c) == PyInt(c)

\* dict.get(key) and dict.get(key, default)
Get(d, k) == IF k \in DOMAIN d THEN d[k] ELSE None
GetOr(d, k, default) == IF k \in DOMAIN d THEN d[k] ELSE default

\* Python truthiness of a value: None, "", 0 and [] are falsy
Truthy(v) ==
    CASE v.t = "NoneType" -> FALSE
      [] v.t = "str" -> v.s # ""
      [] v.t \in {"int", "bool"} -> v.n # 0
      [] v.t = "list" -> v.l # <<>>
      [] OTHER -> TRUE

\* str(v) as an f-string renders it
PyStr(v) ==
    CASE v.t = "NoneType" -> "None"
      [] v.t = "str" -> v.s
      [] OTHER -> "<" \o v.t \o ">"

\* truncate(text, max_len) returns normally: a falsy text gives "N/A", otherwise
\* len(text) is taken, which raises TypeError for an int
TruncateRaises(v) == Truthy(v) /\ v.t \in {"int", "bool"}

(***************************************************************************)
(* Event filter of fetch_events.                                           *)
(***************************************************************************)
\* start_str.replace("Z", "+00:00"): a str ending in Z becomes one ending in +00:00
ReplaceZ(v) == IF v.s = "iso:Z" THEN IsoText("iso:offset", v.n, 0) ELSE v

\* datetime.fromisoformat(text): "aware" with its UTC instant, "naive" with its
\* wall-clock reading, or ValueError
FromIsoFormat(v) ==
    CASE v.s = "iso:offset" -> [kind |-> "aware", at |-> v.n - v.o]
      [] v.s = "iso:naive" -> [kind |-> "naive", at |-> v.n]
      [] OTHER -> [kind |-> "ValueError", at |-> 0]

\* the body of the loop, had it not looked at is_active
FilterOneIgnoresActive(e, now) ==
    LET cutoff == now - MAX_EVENT_AGE_HOURS
        start_str == Get(e, "start_time")
        start_dt == FromIsoFormat(ReplaceZ(start_str))
    IN  IF ~Truthy(start_str) THEN "keep"
        ELSE IF start_str.t # "str" THEN "raise"
        ELSE IF start_dt.kind \in {"ValueError", "naive"} THEN "keep"
        ELSE IF start_dt.at > now THEN "future"
        ELSE IF start_dt.at < cutoff THEN "stale"
        ELSE "keep"

\* the body of the loop of fetch_events for one event: "skip" (not active),
\* "future", "stale", "keep", or "raise" (an exception the loop does not catch:
\* AttributeError of start_str.replace for a start_time that is no str)
FilterOne(e, now) ==
    LET cutoff == now - MAX_EVENT_AGE_HOURS
        start_str == Get(e, "start_time")
        start_dt == FromIsoFormat(ReplaceZ(start_str))
    IN  IF ~Truthy(GetOr(e, "is_active", PyBool(FALSE))) THEN "skip"
        ELSE IF ~Truthy(start_str) THEN "keep"
        ELSE IF start_str.t # "str" THEN "raise"
        ELSE IF start_dt.kind = "ValueError" THEN "keep"
        \* comparing a naive datetime with the aware now raises TypeError,
        \* which the except clause catches: the event is kept
        ELSE IF start_dt.kind = "naive" THEN "keep"
        ELSE IF start_dt.at > now THEN "future"
        ELSE IF start_dt.at < cutoff THEN "stale"
        ELSE "keep"

RECURSIVE FilterEvents(_, _)
\* active_events as the loop of fetch_events builds it
FilterEvents(events, now) ==
    IF events = <<>> THEN <<>>
    ELSE LET rest == FilterEvents(Tail(events), now)
         IN  IF FilterOne(Head(events), now) = "keep"
             THEN <<Head(events)>> \o rest
             ELSE rest

\* the loop of fetch_events ends with an exception
FilterRaises(events, now) ==
    \E i \in 1..Len(events) : FilterOne(events[i], now) = "raise"

(***************************************************************************)
(* Payload builder, ledger record and resolve payload.                     *)
(***************************************************************************)
\* the keys of a generated alert that build_bigpanda_payload reads
GenKeys ==
    {"host", "check", "description", "service", "application", "cluster",
     "instance", "location", "environment", "cloud_region", "cloud_provider",
     "cloud_account_id", "assignment_group", "escalation_group",
     "business_criticality", "known_dependencies", "business_owner"}

\* the keys of the dict build_bigpanda_payload returns
PayloadKeys == GenKeys \cup {"status", "eo_correlator", "timestamp"}

\* the keys of the dict resolve_alerts builds
OkPayloadKeys ==
    {"status", "host", "check", "description", "service", "application",
     "cluster", "instance", "location", "environment", "eo_correlator",
     "timestamp"}

\* the default of generated_alert.get(key, default) in build_bigpanda_payload
PayloadDefault(k) ==
    CASE k = "host" -> Str("unknown-host")
      [] k = "check" -> Str("unknown_check")
      [] k = "description" -> Str("No description")
      [] k = "environment" -> Str("production")
      [] OTHER -> Str("")

\* build_bigpanda_payload, had it let the keys of generated_alert override its own
build_bigpanda_payload_overridable(generated_alert, status, c) ==
    [k \in PayloadKeys |->
        CASE k = "status" -> GetOr(generated_alert, k, Str(status))
          [] k = "eo_correlator" -> GetOr(generated_alert, k, Str("true"))
          [] k = "timestamp" -> GetOr(generated_alert, k, EpochSeconds(c))
          [] k = "known_dependencies" -> GetOr(generated_alert, k, PyList(<<>>))
          [] OTHER -> GetOr(generated_alert, k, PayloadDefault(k))]

\* build_bigpanda_payload(generated_alert, status) called at instant c
build_bigpanda_payload(generated_alert, status, c) ==
    LET got == GetOr(generated_alert, "known_dependencies", PyList(<<>>))
        deps == IF got.t = "str" THEN PyList(<<got.s>>) ELSE got
    IN  [k \in PayloadKeys |->
            CASE k = "status" -> Str(status)
              [] k = "known_dependencies" -> deps
              [] k = "eo_correlator" -> Str("true")
              [] k = "timestamp" -> EpochSeconds(c)
              [] OTHER -> GetOr(generated_alert, k, PayloadDefault(k))]

\* the keys of the record track_sent_alert builds
RecordKeys == GenKeys \cup {"sent_at", "based_on_event", "status"}

\* track_sent_alert, had it left "environment" out of the record
TrackedRecordNoEnvironment(payload, event, c) ==
    [k \in RecordKeys \ {"environment"} |->
        CASE k = "sent_at" -> IsoFormat(c)
          [] k = "based_on_event" -> GetOr(event, "title", Str("N/A"))
          [] k = "status" -> Str("critical")
          [] OTHER -> Get(payload, k)]

\* the record track_sent_alert appends for payload and event at instant c
TrackedRecord(payload, event, c) ==
    [k \in RecordKeys |->
        CASE k = "sent_at" -> IsoFormat(c)
          [] k = "based_on_event" -> GetOr(event, "title", Str("N/A"))
          [] k = "status" -> Str("critical")
          [] OTHER -> Get(payload, k)]

\* ok_payload, had it been the whole record with another status and description
OkPayloadWholeRecord(alert, c) ==
    [k \in OkPayloadKeys \cup DOMAIN alert |->
        CASE k = "status" -> Str("ok")
          [] k = "description" ->
               Str("Resolved: " \o PyStr(GetOr(alert, "description", Str("Alert cleared"))))
          [] k = "eo_correlator" -> Str("true")
          [] k = "timestamp" -> EpochSeconds(c)
          [] OTHER -> alert[k]]

\* ok_payload of resolve_alerts for the record alert at instant c
OkPayload(alert, c) ==
    [k \in OkPayloadKeys |->
        CASE k = "status" -> Str("ok")
          [] k \in {"host", "check"} -> Get(alert, k)
          [] k = "description" ->
               Str("Resolved: " \o PyStr(GetOr(alert, "description", Str("Alert cleared"))))
          [] k = "eo_correlator" -> Str("true")
          [] k = "timestamp" -> EpochSeconds(c)
          [] OTHER -> GetOr(alert, k, Str(""))]

\* the two assignments, had resolve_alerts left resolved_at out
MarkResolvedStatusOnly(alert, c) ==
    [k \in DOMAIN alert |-> IF k = "status" THEN Str("ok") ELSE alert[k]]

\* alert["status"] = "ok"; alert["resolved_at"] = now().isoformat() at instant c
MarkResolved(alert, c) ==
    [k \in DOMAIN alert \cup {"resolved_at"} |->
        CASE k = "status" -> Str("ok")
          [] k = "resolved_at" -> IsoFormat(c)
          [] OTHER -> alert[k]]

\* a.get("status") != "ok"
IsActive(alert) == Get(alert, "status") # Str("ok")

\* a.get("status") == "ok"
IsResolved(alert) == Get(alert, "status") = Str("ok")

\* active_count of _show_main_menu
active_count(alerts) == Len(SelectSeq(alerts, IsActive))

\* the map of show_sent_alerts, had it numbered every record of the ledger
ActiveIndicesAll(alerts, i) == [j \in 1..(Len(alerts) + 1 - i) |-> j + i - 1]

RECURSIVE ActiveIndices(_, _)
\* the positions in sent_alerts, from position i on, of the records that
\* show_sent_alerts lists as active, in ledger order: alert_map[j] is the record
\* at position ActiveIndices(sent_alerts, 1)[j]
ActiveIndices(alerts, i) ==
    IF i > Len(alerts) THEN <<>>
    ELSE IF IsActive(alerts[i]) THEN <<i>> \o ActiveIndices(alerts, i + 1)
    ELSE ActiveIndices(alerts, i + 1)

\* the table of show_sent_alerts raises TypeError in truncate for a record
\* whose host, check, location (or cluster) or based_on_event is an int
ShowRowRaises(alert) ==
    \/ TruncateRaises(GetOr(alert, "host", Str("N/A")))
    \/ TruncateRaises(GetOr(alert, "check", Str("N/A")))
    \/ TruncateRaises(GetOr(alert, "location", GetOr(alert, "cluster", Str("N/A"))))
    \/ TruncateRaises(GetOr(alert, "based_on_event", Str("N/A")))

show_sent_alerts_raises(alerts) ==
    \E i \in 1..Len(alerts) : IsActive(alerts[i]) /\ ShowRowRaises(alerts[i])

(***************************************************************************)
(* The ledger file: json.dump and json.load.  A JSON value is a record     *)
(* [j, s, n, o, a]; a document is a sequence of JSON objects.              *)
(***************************************************************************)
\* json.dump of one Python value (every value here came from json.loads or is a str)
JsonEncode(v) ==
    CASE v.t = "NoneType" -> [j |-> "null", s |-> "", n |-> 0, o |-> 0, a |-> <<>>]
      [] v.t = "str" -> [j |-> "string", s |-> v.s, n |-> v.n, o |-> v.o, a |-> <<>>]
      [] v.t = "int" -> [j |-> "number", s |-> "", n |-> v.n, o |-> 0, a |-> <<>>]
      [] v.t = "bool" -> [j |-> IF v.n = 1 THEN "true" ELSE "false",
                          s |-> "", n |-> 0, o |-> 0, a |-> <<>>]
      [] OTHER -> [j |-> "array", s |-> "", n |-> 0, o |-> 0, a |-> v.l]

\* json.load of one JSON value, had it read null as the empty str
JsonDecodeNullAsEmpty(x) ==
    CASE x.j = "null" -> Str("")
      [] x.j = "string" -> [t |-> "str", s |-> x.s, n |-> x.n, o |-> x.o, l |-> <<>>]
      [] x.j = "number" -> PyInt(x.n)
      [] x.j = "true" -> PyBool(TRUE)
      [] x.j = "false" -> PyBool(FALSE)
      [] OTHER -> PyList(x.a)

\* json.load of one JSON value
JsonDecode(x) ==
    CASE x.j = "null" -> None
      [] x.j = "string" -> [t |-> "str", s |-> x.s, n |-> x.n, o |-> x.o, l |-> <<>>]
      [] x.j = "number" -> PyInt(x.n)
      [] x.j = "true" -> PyBool(TRUE)
      [] x.j = "false" -> PyBool(FALSE)
      [] OTHER -> PyList(x.a)

\* json.dump, had it been given only the active records
JsonDumpActiveOnly(alerts) ==
    LET active == SelectSeq(alerts, IsActive)
    IN  [i \in 1..Len(active) |-> [k \in DOMAIN active[i] |-> JsonEncode(active[i][k])]]

\* json.dump(self.sent_alerts, f): the text of the whole document
JsonDump(alerts) ==
    [i \in 1..Len(alerts) |-> [k \in DOMAIN alerts[i] |-> JsonEncode(alerts[i][k])]]

\* json.load(f) of a complete document
JsonLoad(body) ==
    [i \in 1..Len(body) |-> [k \in DOMAIN body[i] |-> JsonDecode(body[i][k])]]

\* the ledger file: absent, or a text that is a complete document, or the
\* text an interrupted write left (a proper prefix of a document, which no
\* JSON parser accepts); read is what open and f.read() do with it: "ok",
\* "IOError" (the file cannot be opened or read) or "UnicodeDecodeError" (its
\* bytes are not text in the default encoding)
NoFile == [exists |-> FALSE, complete |-> FALSE, body |-> <<>>, read |-> "ok"]
Document(body) == [exists |-> TRUE, complete |-> TRUE, body |-> body, read |-> "ok"]
Truncated(body) == [exists |-> TRUE, complete |-> FALSE, body |-> body, read |-> "ok"]
\* a document one of whose bytes was damaged (or that was saved in another
\* encoding): not valid UTF-8, so not JSON
Undecodable(body) ==
    [exists |-> TRUE, complete |-> FALSE, body |-> body, read |-> "UnicodeDecodeError"]
\* a document the process has no permission to read
Unreadable(body) ==
    [exists |-> TRUE, complete |-> TRUE, body |-> body, read |-> "IOError"]

\* _load_sent_alerts raises: json.load raises UnicodeDecodeError, which is a
\* ValueError but neither json.JSONDecodeError nor IOError
LoadRaises(f) == f.exists /\ f.read = "UnicodeDecodeError"

\* self.sent_alerts after __init__ and _load_sent_alerts: json.load(f) when
\* the file exists and open and json.load succeed, [] otherwise
LoadSentAlerts(f) ==
    IF f.exists /\ f.read = "ok" /\ f.complete THEN JsonLoad(f.body) ELSE <<>>


(***************************************************************************)
(* Inputs: what the alert generator, the event feed and the operator give. *)
(***************************************************************************)
\* a complete generated alert, every field a str, with keys of its own for
\* status, eo_correlator and timestamp
GenFull ==
    [k \in GenKeys \cup {"status", "eo_correlator", "timestamp"} |->
        CASE k = "known_dependencies" -> PyList(<<"AWS Cloud", "AWS Lambda">>)
          [] k = "environment" -> Str("staging")
          [] k = "status" -> Str("acknowledged")
          [] k = "eo_correlator" -> Str("false")
          [] k = "timestamp" -> Str("yesterday")
          [] OTHER -> Str(k \o "-1")]

\* a generated alert that lacks some fields, has JSON null for others and
\* gives known_dependencies as a str
GenPartial ==
    [k \in {"host", "check", "description", "cluster", "location",
            "known_dependencies"} |->
        CASE k \in {"host", "description", "location"} -> None
          [] k = "known_dependencies" -> Str("AWS Cloud")
          [] OTHER -> Str(k \o "-2")]

\* a generated alert whose host is a JSON number
GenIntHost ==
    [k \in GenKeys |->
        CASE k = "host" -> PyInt(7)
          [] k = "known_dependencies" -> PyList(<<>>)
          [] OTHER -> Str(k \o "-4")]

\* the empty dict {} (json.loads("{}"))
EmptyDict == [k \in {} |-> None]

\* what generate_internal_alert returns: a dict, or None after an error
GenDict(d) == [none |-> FALSE, dict |-> d]
GenNone == [none |-> TRUE, dict |-> EmptyDict]
GenOutcomes ==
    {GenDict(GenFull), GenDict(GenPartial), GenDict(GenIntHost), GenDict(EmptyDict),
     GenNone}

\* the generated alerts the operator declines and asks to regenerate
DraftSamples == {GenDict(GenFull)}

\* "if not generated": None and the empty dict are falsy
GenFalsy(g) == g.none \/ DOMAIN g.dict = {}

\* an external event of the feed
Event(active, start, title) ==
    [k \in {"is_active", "start_time", "title"} |->
        CASE k = "is_active" -> active
          [] k = "start_time" -> start
          [] OTHER -> Str(title)]

\* an event without the start_time key
EventNoStart(active, title) ==
    [k \in {"is_active", "title"} |-> IF k = "is_active" THEN active ELSE Str(title)]

\* an event without the is_active and title keys
EventNoActive(start) == [k \in {"start_time"} |-> start]

\* the readings (in hours) the sample timestamps take: around the cutoff
\* (0 - MAX_EVENT_AGE_HOURS) and around the first reading of the clock (0)
SampleHours == {0 - MAX_EVENT_AGE_HOURS - 1, 0 - MAX_EVENT_AGE_HOURS, 0 - 1, 0, 1, 2}

\* the start_time values of the sample events
SampleStartTimes ==
    {IsoText("iso:Z", h, 0) : h \in SampleHours}
    \cup {IsoText("iso:offset", h + 2, 2) : h \in SampleHours}
    \cup {IsoText("iso:offset", h, 1) : h \in {0 - MAX_EVENT_AGE_HOURS + 1, 1, 2}}
    \cup {IsoText("iso:naive", h, 0) : h \in {0 - MAX_EVENT_AGE_HOURS - 48, 0, 48}}
    \cup {Str(""), Str("yesterday"), None}

EventSamples ==
    {Event(PyBool(TRUE), st, "T") : st \in SampleStartTimes}
    \cup {EventNoStart(PyBool(TRUE), "T"),
          Event(PyBool(FALSE), IsoText("iso:Z", 0, 0), "T"),
          Event(PyBool(FALSE), Str("yesterday"), "T"),
          Event(None, IsoText("iso:Z", 0, 0), "T"),
          EventNoActive(IsoText("iso:Z", 0, 0)),
          Event(PyBool(TRUE), PyInt(1700000000), "T")}

RECURSIVE SeqsUpTo(_, _)
\* the sequences over S of length at most n
SeqsUpTo(S, n) ==
    IF n = 0 THEN {<<>>}
    ELSE LET shorter == SeqsUpTo(S, n - 1)
         IN  shorter \cup {Append(q, x) : q \in {r \in shorter : Len(r) = n - 1}, x \in S}

\* the feeds the generate-and-send flow is given
EvDallas == Event(PyBool(TRUE), IsoText("iso:Z", 0 - 1, 0), "Dallas outage")
EvOld == Event(PyBool(TRUE), IsoText("iso:Z", 0 - MAX_EVENT_AGE_HOURS - 9, 0), "Old")
EvOdd == Event(PyBool(TRUE), PyInt(1700000000), "Odd")
FeedSamples == {<<>>, <<EvOld>>, <<EvOld, EvDallas>>, <<EvOdd>>}

\* the comma-separated numbers the operator types at the resolve prompt
SelectionNumbers == {q \in SeqsUpTo(0..(MaxAlerts + 1), MaxSelect) : q # <<>>}

\* a credential is a text, given as its pieces: value.startswith(p) holds
\* when p is its first piece; "" has no piece
StartsWith(value, p) == value # <<>> /\ Head(value) = p

\* the .env values and the command-line flags of a process
Config(token, key, openai, resolve_all, setup_oim) ==
    [bp_org_token |-> token, bp_app_key |-> key, openai_api_key |-> openai,
     resolve_all |-> resolve_all, setup_oim |-> setup_oim]

\* no process, no configuration
NoConfig == Config(<<>>, <<>>, <<>>, FALSE, FALSE)

\* real credentials
RealCredentials == <<<<"BPUAK-a1b2">>, <<"c3d4">>, <<"sk-", "proj-e5">>>>

\* the configurations of a process: the real credentials with no flag, with
\* --resolve-all and with --setup-oim; an unset variable and each placeholder
\* of the .env template, with and without a flag
ConfigSamples ==
    LET real == RealCredentials
    IN  {Config(real[1], real[2], real[3], FALSE, FALSE),
         Config(real[1], real[2], real[3], TRUE, FALSE),
         Config(real[1], real[2], real[3], FALSE, TRUE),
         Config(<<>>, real[2], real[3], FALSE, FALSE),
         Config(<<"BPUAK-your", "-org-token">>, real[2], real[3], TRUE, FALSE),
         Config(real[1], <<"your_", "app_key_here">>, real[3], FALSE, TRUE),
         Config(real[1], real[2], <<"sk-your", "-openai-key">>, TRUE, TRUE)}

\* _validate_config, had it only looked for unset variables
_validate_config_unset_only(cfg) ==
    SelectSeq(<<"bp_org_token", "bp_app_key", "openai_api_key">>,
              LAMBDA name : cfg[name] = <<>>)

\* _validate_config: the names of the credentials that are empty or begin
\* with a placeholder
_validate_config(cfg) ==
    SelectSeq(<<"bp_org_token", "bp_app_key", "openai_api_key">>,
              LAMBDA name :
                  \/ cfg[name] = <<>>
                  \/ \E p \in {"your_", "sk-your", "BPUAK-your"} : StartsWith(cfg[name], p))

(***************************************************************************)
(* State.                                                                  *)
(***************************************************************************)
VARIABLES
    pc,           \* where the process is: "off" (no process), "loop" (top of the
                  \* menu loop), "menu" (at the menu prompt), "quick" (run with
                  \* --resolve-all, before resolve_alerts), "resolving"
                  \* (in the loop of resolve_alerts), "save_open" (about to call
                  \* _save_sent_alerts), "save_write" (file opened, json.dump not
                  \* finished), "exit" (run is returning), "filter" (fetch_events alone)
    sent_alerts,  \* self.sent_alerts
    events,       \* self.events
    file,         \* the ledger file .demo_sent_alerts.json
    clock,        \* the time: each send_to_bigpanda call takes one unit
    auto_all,     \* the auto_all argument of the running resolve_alerts
    to_resolve,   \* to_resolve of resolve_alerts, as positions in sent_alerts
    results,      \* the value of success in each finished iteration of the loop
    feed,         \* data["alerts"] of the response fetch_events got
    delivered,    \* history: the last send_to_bigpanda call: its payload, what
                  \* it returned, the dict the payload was built from, the
                  \* value of generated at the call and the declined draft
    origin,       \* history: for each record of sent_alerts, the open payload
                  \* whose delivery created it
    file_origin,  \* history: the same for each record of the ledger file
    last,         \* history: the operation that returned last
    ended,        \* history: how the process ended, "none" while it runs
    config        \* the credentials _load_config has read and the flags main
                  \* passes to run

vars == <<pc, sent_alerts, events, file, clock, auto_all, to_resolve, results,
          feed, delivered, origin, file_origin, last, ended, config>>

NoDelivery ==
    [kind |-> "none", payload |-> EmptyDict, ok |-> FALSE, idx |-> 0, source |-> EmptyDict,
     generated |-> EmptyDict, draft |-> GenNone]

Init ==
    /\ pc = "off"
    /\ sent_alerts = <<>>
    /\ events = <<>>
    /\ file = NoFile
    /\ clock = 0
    /\ auto_all = FALSE
    /\ to_resolve = <<>>
    /\ results = <<>>
    /\ feed = <<>>
    /\ delivered = NoDelivery
    /\ origin = <<>>
    /\ file_origin = <<>>
    /\ last = "none"
    /\ ended = "none"
    /\ config = NoConfig


(***************************************************************************)
(* The process: start, menu loop, end.                                     *)
(***************************************************************************)
\* the process is gone, and its memory with it
EndProcess(how) ==
    /\ pc' = "off"
    /\ sent_alerts' = <<>>
    /\ events' = <<>>
    /\ auto_all' = FALSE
    /\ to_resolve' = <<>>
    /\ results' = <<>>
    /\ delivered' = NoDelivery
    /\ origin' = <<>>
    /\ last' = "none"
    /\ ended' = how
    /\ config' = NoConfig
    /\ UNCHANGED <<clock, feed>>

\* main: DemoSimulator() loads the configuration and the ledger; run()
\* returns after _show_config_help when _validate_config names a credential,
\* and otherwise goes to resolve_alerts(auto_all=True) with --resolve-all, to
\* setup_oim_integration with --setup-oim, or to the menu loop
Startup ==
    /\ pc = "off"
    /\ ~LoadRaises(file)
    /\ \E cfg \in ConfigSamples :
        /\ config' = cfg
        /\ IF _validate_config(cfg) # <<>>
           THEN pc' = "exit" /\ last' = "config_help"
           ELSE /\ pc' = IF cfg.resolve_all THEN "quick"
                         ELSE IF cfg.setup_oim THEN "setup"
                         ELSE "loop"
                /\ last' = "startup"
    /\ sent_alerts' = LoadSentAlerts(file)
    /\ origin' = IF LoadSentAlerts(file) # <<>> THEN file_origin ELSE <<>>
    /\ ended' = "none"
    /\ UNCHANGED <<events, file, clock, auto_all, to_resolve, results, feed,
                   delivered, file_origin>>

\* the top of the while loop of run: _show_main_menu shows the menu and asks
\* for a choice; the locals of the operation that returned are gone
ShowMainMenu ==
    /\ pc = "loop"
    /\ pc' = "menu"
    /\ last' = "none"
    /\ to_resolve' = <<>>
    /\ results' = <<>>
    /\ delivered' = NoDelivery
    /\ UNCHANGED <<sent_alerts, events, file, clock, auto_all, feed, origin,
                   file_origin, ended, config>>

\* menu choice 5, or run returns after the quick resolve
Exit ==
    /\ pc \in {"menu", "exit"}
    /\ EndProcess("exit")
    /\ UNCHANGED <<file, file_origin>>

\* KeyboardInterrupt: main prints and calls sys.exit(0).  During json.dump
\* the with block closes the file with the part of the text written so far.
Interrupt ==
    /\ pc \notin {"off", "filter", "fetched", "raised"}
    /\ IF pc = "save_write"
       THEN LET text == JsonDump(sent_alerts)
            IN  \E k \in 0..Len(text) : file' = Truncated(SubSeq(text, 1, k))
       ELSE file' = file
    /\ EndProcess("interrupt")
    /\ UNCHANGED file_origin

(***************************************************************************)
(* Menu choice 1: generate_and_send_flow.                                  *)
(***************************************************************************)
\* the flow, had it sent a payload before it returned
FlowAbortDelivers(new_events, why) ==
    /\ clock < MaxClock
    /\ pc' = "loop"
    /\ events' = new_events
    /\ last' = why
    /\ clock' = clock + 1
    /\ delivered' = [kind |-> "open",
                     payload |-> build_bigpanda_payload(EmptyDict, "critical", clock),
                     ok |-> FALSE, idx |-> 0, source |-> EmptyDict,
                     generated |-> EmptyDict, draft |-> GenNone]
    /\ UNCHANGED <<sent_alerts, file, auto_all, to_resolve, results, feed, origin,
                   file_origin, ended, config>>

\* the flow returns before send_to_bigpanda
FlowAbort(new_events, why) ==
    /\ pc' = "loop"
    /\ events' = new_events
    /\ last' = why
    /\ UNCHANGED <<to_resolve, results, delivered>>
    /\ UNCHANGED <<sent_alerts, file, clock, auto_all, feed, origin, file_origin,
                   ended, config>>

\* the end of the flow, had it tracked the alert whatever send_to_bigpanda returned
FlowSendAlwaysTracks(new_events, event, generated, draft) ==
    /\ Len(sent_alerts) < MaxAlerts
    /\ clock < MaxClock
    /\ \E success \in BOOLEAN :
        LET payload == build_bigpanda_payload(generated, "critical", clock)
        IN  /\ clock' = clock + 1
            /\ events' = new_events
            /\ delivered' = [kind |-> "open", payload |-> payload, ok |-> success,
                             idx |-> IF success THEN Len(sent_alerts) + 1 ELSE 0,
                             source |-> generated, generated |-> generated,
                             draft |-> draft]
            /\ sent_alerts' =
                 Append(sent_alerts, TrackedRecord(payload, event, clock + 1))
            /\ origin' = Append(origin, payload)
            /\ pc' = "save_open"
            /\ last' = "none"
    /\ UNCHANGED <<file, auto_all, to_resolve, results, feed, file_origin, ended, config>>

\* the end of the flow, had it sent the payload of the declined draft when
\* there is one
FlowSendDraft(new_events, event, generated, draft) ==
    /\ Len(sent_alerts) < MaxAlerts
    /\ clock < MaxClock
    /\ \E success \in BOOLEAN :
        LET built_from == IF draft.none THEN generated ELSE draft.dict
            payload == build_bigpanda_payload(built_from, "critical", clock)
        IN  /\ clock' = clock + 1
            /\ events' = new_events
            /\ delivered' = [kind |-> "open", payload |-> payload, ok |-> success,
                             idx |-> IF success THEN Len(sent_alerts) + 1 ELSE 0,
                             source |-> built_from, generated |-> generated,
                             draft |-> draft]
            /\ IF success
               THEN /\ sent_alerts' =
                         Append(sent_alerts, TrackedRecord(payload, event, clock + 1))
                    /\ origin' = Append(origin, payload)
                    /\ pc' = "save_open"
                    /\ last' = "none"
               ELSE /\ UNCHANGED <<sent_alerts, origin>>
                    /\ pc' = "loop"
                    /\ last' = "send_failed"
    /\ UNCHANGED <<file, auto_all, to_resolve, results, feed, file_origin, ended, config>>

\* payload = build_bigpanda_payload(generated); send_to_bigpanda(payload);
\* on success track_sent_alert appends the record (its save comes next);
\* draft is the generated alert the operator declined before, if any
FlowSend(new_events, event, generated, draft) ==
    /\ Len(sent_alerts) < MaxAlerts
    /\ clock < MaxClock
    /\ \E success \in BOOLEAN :
        LET payload == build_bigpanda_payload(generated, "critical", clock)
        IN  /\ clock' = clock + 1
            /\ events' = new_events
            /\ delivered' = [kind |-> "open", payload |-> payload, ok |-> success,
                             idx |-> IF success THEN Len(sent_alerts) + 1 ELSE 0,
                             source |-> generated, generated |-> generated,
                             draft |-> draft]
            /\ IF success
               THEN /\ sent_alerts' =
                         Append(sent_alerts, TrackedRecord(payload, event, clock + 1))
                    /\ origin' = Append(origin, payload)
                    /\ pc' = "save_open"
                    /\ last' = "none"
               ELSE /\ UNCHANGED <<sent_alerts, origin>>
                    /\ pc' = "loop"
                    /\ last' = "send_failed"
    /\ UNCHANGED <<file, auto_all, to_resolve, results, feed, file_origin, ended, config>>

generate_and_send_flow ==
    /\ pc = "menu"
    /\ \/ FlowAbort(events, "fetch_failed")
       \/ \E fd \in FeedSamples :
            /\ ~FilterRaises(fd, clock)
            /\ LET evs == FilterEvents(fd, clock)
               IN  \/ evs = <<>> /\ FlowAbort(evs, "no_events")
                   \/ evs # <<>> /\ FlowAbort(evs, "no_selection")
                   \/ \E i \in 1..Len(evs), g1 \in GenOutcomes :
                        \/ GenFalsy(g1) /\ FlowAbort(evs, "generation_failed")
                        \/ ~GenFalsy(g1) /\ FlowSend(evs, evs[i], g1.dict, GenNone)
                        \/ ~GenFalsy(g1) /\ FlowAbort(evs, "declined")
                        \/ /\ g1 \in DraftSamples
                           /\ \E g2 \in GenOutcomes :
                                \/ GenFalsy(g2) /\ FlowAbort(evs, "regeneration_failed")
                                \/ ~GenFalsy(g2) /\ FlowSend(evs, evs[i], g2.dict, g1)
                                \/ ~GenFalsy(g2) /\ FlowAbort(evs, "regenerated_declined")

\* fetch_events raises in its loop (an exception that is no RequestException):
\* nothing catches it, the process ends with a traceback
FlowFetchRaises ==
    /\ pc = "menu"
    /\ \E fd \in FeedSamples : FilterRaises(fd, clock)
    /\ EndProcess("error")
    /\ UNCHANGED <<file, file_origin>>

(***************************************************************************)
(* Menu choices 2 and 3: resolve_alerts and show_sent_alerts.              *)
(***************************************************************************)
RECURSIVE PickSelected(_, _)
\* [alert_map[i] for i in indices if i in alert_map]
PickSelected(indices, alert_map) ==
    IF indices = <<>> THEN <<>>
    ELSE LET rest == PickSelected(Tail(indices), alert_map)
         IN  IF Head(indices) \in 1..Len(alert_map)
             THEN <<alert_map[Head(indices)]>> \o rest
             ELSE rest

\* the return before the loop, had resolve_alerts pruned the resolved records
\* from the ledger on its way out
ResolveReturnDropsResolved(why) ==
    /\ pc' = IF pc = "quick" THEN "exit" ELSE "loop"
    /\ last' = why
    /\ sent_alerts' = SelectSeq(sent_alerts, IsActive)
    /\ UNCHANGED <<to_resolve, results, delivered>>
    /\ UNCHANGED <<events, file, clock, auto_all, feed, origin,
                   file_origin, ended, config>>

\* resolve_alerts returns before its loop
ResolveReturn(why) ==
    /\ pc' = IF pc = "quick" THEN "exit" ELSE "loop"
    /\ last' = why
    /\ UNCHANGED <<to_resolve, results, delivered>>
    /\ UNCHANGED <<sent_alerts, events, file, clock, auto_all, feed, origin,
                   file_origin, ended, config>>

\* resolve_alerts reaches its loop with to_resolve = selected
StartBatch(selected) ==
    /\ pc' = "resolving"
    /\ to_resolve' = selected
    /\ results' = <<>>
    /\ auto_all' = (pc = "quick")
    /\ last' = "none"
    /\ UNCHANGED delivered
    /\ UNCHANGED <<sent_alerts, events, file, clock, feed, origin, file_origin,
                   ended, config>>

\* resolve_alerts up to its loop: the table, the selection, the confirmation
ResolveBegin ==
    /\ pc \in {"menu", "quick"}
    /\ ~show_sent_alerts_raises(sent_alerts)
    /\ LET alert_map == ActiveIndices(sent_alerts, 1)
       IN  IF alert_map = <<>> THEN ResolveReturn("resolve_nothing")
           ELSE IF pc = "quick" THEN StartBatch(alert_map)
           ELSE \/ ResolveReturn("resolve_cancelled")
                \/ StartBatch(alert_map)
                \/ ResolveReturn("resolve_invalid")
                \/ \E indices \in SelectionNumbers :
                     LET selected == PickSelected(indices, alert_map)
                     IN  IF selected = <<>> THEN ResolveReturn("resolve_empty")
                         ELSE StartBatch(selected)
                \/ ResolveReturn("resolve_declined")

\* the end of one iteration, had it ignored the value of success
AfterSendAlways(alerts, i, success, c) ==
    [alerts EXCEPT ![i] = MarkResolved(alerts[i], c)]

\* the end of one iteration: on success the record at position i gets
\* status "ok" and resolved_at, on failure nothing changes
AfterSend(alerts, i, success, c) ==
    IF success THEN [alerts EXCEPT ![i] = MarkResolved(alerts[i], c)] ELSE alerts

\* the loop of resolve_alerts, had it stopped at the first failed delivery
ResolveStepStopsOnFailure ==
    /\ pc = "resolving"
    /\ clock < MaxClock
    /\ \E success \in BOOLEAN :
        LET i == to_resolve[Len(results) + 1]
            alert == sent_alerts[i]
            ok_payload == OkPayload(alert, clock)
        IN  /\ clock' = clock + 1
            /\ delivered' = [kind |-> "resolve", payload |-> ok_payload,
                             ok |-> success, idx |-> i, source |-> alert,
                             generated |-> EmptyDict, draft |-> GenNone]
            /\ sent_alerts' = AfterSend(sent_alerts, i, success, clock + 1)
            /\ results' = Append(results, success)
            /\ pc' = IF ~success \/ Len(results) + 1 = Len(to_resolve)
                     THEN "save_open" ELSE "resolving"
    /\ UNCHANGED <<events, file, auto_all, to_resolve, feed, origin, file_origin,
                   last, ended, config>>

\* one iteration of the loop of resolve_alerts; the save follows the last one
ResolveStep ==
    /\ pc = "resolving"
    /\ clock < MaxClock
    /\ \E success \in BOOLEAN :
        LET i == to_resolve[Len(results) + 1]
            alert == sent_alerts[i]
            ok_payload == OkPayload(alert, clock)
        IN  /\ clock' = clock + 1
            /\ delivered' = [kind |-> "resolve", payload |-> ok_payload,
                             ok |-> success, idx |-> i, source |-> alert,
                             generated |-> EmptyDict, draft |-> GenNone]
            /\ sent_alerts' = AfterSend(sent_alerts, i, success, clock + 1)
            /\ results' = Append(results, success)
            /\ pc' = IF Len(results) + 1 = Len(to_resolve) THEN "save_open"
                     ELSE "resolving"
    /\ UNCHANGED <<events, file, auto_all, to_resolve, feed, origin, file_origin,
                   last, ended, config>>

\* menu choice 3
ViewSentAlerts ==
    /\ pc = "menu"
    /\ ~show_sent_alerts_raises(sent_alerts)
    /\ pc' = "loop"
    /\ last' = "view"
    /\ UNCHANGED <<to_resolve, results, delivered>>
    /\ UNCHANGED <<sent_alerts, events, file, clock, auto_all, feed, origin,
                   file_origin, ended, config>>

\* show_sent_alerts raises TypeError (menu choices 2 and 3, --resolve-all):
\* nothing catches it, the process ends with a traceback
ShowRaises ==
    /\ pc \in {"menu", "quick"}
    /\ show_sent_alerts_raises(sent_alerts)
    /\ EndProcess("error")
    /\ UNCHANGED <<file, file_origin>>

\* menu choice 4, or run with --setup-oim: setup_oim_integration posts the
\* static configuration (or is declined, or fails)
SetupOim ==
    /\ pc \in {"menu", "setup"}
    /\ pc' = IF pc = "setup" THEN "exit" ELSE "loop"
    /\ last' = "setup"
    /\ UNCHANGED <<to_resolve, results, delivered>>
    /\ UNCHANGED <<sent_alerts, events, file, clock, auto_all, feed, origin,
                   file_origin, ended, config>>

(***************************************************************************)
(* _save_sent_alerts, called last by track_sent_alert and resolve_alerts.  *)
(***************************************************************************)
\* open(alerts_path, "w") truncates the file
SaveOpen ==
    /\ pc = "save_open"
    /\ pc' = "save_write"
    /\ file' = Truncated(<<>>)
    /\ file_origin' = <<>>
    /\ UNCHANGED <<sent_alerts, events, clock, auto_all, to_resolve, results, feed,
                   delivered, origin, last, ended, config>>

\* open raises OSError: nothing catches it, the process ends with a traceback
SaveOpenFails ==
    /\ pc = "save_open"
    /\ EndProcess("error")
    /\ UNCHANGED <<file, file_origin>>

\* json.dump(self.sent_alerts, f, indent=2) and the close of the file; then
\* track_sent_alert or resolve_alerts returns
SaveWrite ==
    /\ pc = "save_write"
    /\ file' = Document(JsonDump(sent_alerts))
    /\ file_origin' = origin
    /\ pc' = IF auto_all THEN "exit" ELSE "loop"
    /\ last' = IF to_resolve = <<>> THEN "track" ELSE "resolve"
    /\ UNCHANGED <<sent_alerts, events, clock, auto_all, to_resolve, results, feed,
                   delivered, origin, ended, config>>

Next ==
    \/ Startup
    \/ ShowMainMenu
    \/ Exit
    \/ Interrupt
    \/ generate_and_send_flow
    \/ FlowFetchRaises
    \/ ResolveBegin
    \/ ResolveStep
    \/ ViewSentAlerts
    \/ ShowRaises
    \/ SetupOim
    \/ SaveOpen
    \/ SaveOpenFails
    \/ SaveWrite

Spec == Init /\ [][Next]_vars


(***************************************************************************)
(* fetch_events on its own: the filter applied to a feed at a time.        *)
(***************************************************************************)
FilterInit ==
    /\ pc = "filter"
    /\ feed \in SeqsUpTo(EventSamples, MaxEvents)
    /\ clock \in {0, 1}
    /\ sent_alerts = <<>>
    /\ events = <<>>
    /\ file = NoFile
    /\ auto_all = FALSE
    /\ to_resolve = <<>>
    /\ results = <<>>
    /\ delivered = NoDelivery
    /\ origin = <<>>
    /\ file_origin = <<>>
    /\ last = "none"
    /\ ended = "none"
    /\ config = NoConfig

\* fetch_events returns active_events and stores it in self.events
FetchEvents ==
    /\ pc = "filter"
    /\ ~FilterRaises(feed, clock)
    /\ events' = FilterEvents(feed, clock)
    /\ pc' = "fetched"
    /\ UNCHANGED <<sent_alerts, file, clock, auto_all, to_resolve, results, feed,
                   delivered, origin, file_origin, last, ended, config>>

\* the loop of fetch_events raises: self.events is not assigned
FetchEventsRaises ==
    /\ pc = "filter"
    /\ FilterRaises(feed, clock)
    /\ pc' = "raised"
    /\ UNCHANGED <<sent_alerts, events, file, clock, auto_all, to_resolve, results,
                   feed, delivered, origin, file_origin, last, ended, config>>

FilterNext == FetchEvents \/ FetchEventsRaises

FilterSpec == FilterInit /\ [][FilterNext]_vars


(***************************************************************************)
(* The start of a process on a ledger file in any condition.               *)
(***************************************************************************)
\* records of a ledger file: tracked at instant 1, active or resolved at 2
RecordSamples ==
    LET tracked == {TrackedRecord(build_bigpanda_payload(g, "critical", 0), EvDallas, 1) :
                        g \in {GenFull, GenPartial, GenIntHost}}
    IN  tracked \cup {MarkResolved(r, 2) : r \in tracked}

\* the ledgers a file can hold
LedgerSamples == SeqsUpTo(RecordSamples, MaxAlerts)

\* the conditions a process can find the ledger file in
FileSamples ==
    {NoFile}
    \cup {Document(JsonDump(l)) : l \in LedgerSamples}
    \cup UNION {{Truncated(SubSeq(JsonDump(l), 1, k)) : k \in 0..Len(l)} :
                    l \in LedgerSamples}
    \cup {Undecodable(JsonDump(l)) : l \in LedgerSamples}
    \cup {Unreadable(JsonDump(l)) : l \in LedgerSamples}

LoadInit ==
    /\ pc = "off"
    /\ file \in FileSamples
    /\ sent_alerts = <<>>
    /\ events = <<>>
    /\ clock = 0
    /\ auto_all = FALSE
    /\ to_resolve = <<>>
    /\ results = <<>>
    /\ feed = <<>>
    /\ delivered = NoDelivery
    /\ origin = <<>>
    /\ file_origin = <<>>
    /\ last = "none"
    /\ ended = "none"
    /\ config = NoConfig

\* DemoSimulator() raises in _load_sent_alerts: main does not catch it, the
\* process ends with a traceback
StartupRaises ==
    /\ pc = "off"
    /\ ended = "none"
    /\ LoadRaises(file)
    /\ EndProcess("error")
    /\ UNCHANGED <<file, file_origin>>

\* the process has started: it is at the top of the menu loop or about to resolve
Started ==
    /\ pc \in {"loop", "quick", "setup"}
    /\ pc' = "exit"
    /\ UNCHANGED <<sent_alerts, events, file, clock, auto_all, to_resolve, results,
                   feed, delivered, origin, file_origin, last, ended, config>>

\* _save_sent_alerts called right after the load: open(alerts_path, "w")
\* and json.dump(self.sent_alerts, f, indent=2)
_save_sent_alerts ==
    /\ pc \in {"loop", "quick", "setup"}
    /\ last = "startup"
    /\ file' = Document(JsonDump(sent_alerts))
    /\ file_origin' = origin
    /\ pc' = "saved"
    /\ UNCHANGED <<sent_alerts, events, clock, auto_all, to_resolve, results, feed,
                   delivered, origin, last, ended, config>>

LoadNext == Startup \/ StartupRaises \/ Started \/ _save_sent_alerts

LoadSpec == LoadInit /\ [][LoadNext]_vars


(***************************************************************************)
(* Properties.                                                             *)
(***************************************************************************)
\* the fields the platform matches a resolve with its open alert on
MatchKeys ==
    {"host", "check", "service", "application", "cluster", "instance", "location",
     "environment"}

\* C1: whenever resolve_alerts has built and sent the resolve payload of a
\* record, the payload's host, check, service, application, cluster, instance,
\* location and environment equal those of the open payload whose delivery
\* created the record, whatever happened in between (other tracks and
\* resolves, failed resolves, views, saves and loads by later processes).
C1_ResolveFieldFidelity ==
    delivered.kind = "resolve" =>
        \A k \in MatchKeys : delivered.payload[k] = origin[delivered.idx][k]

\* C1 witness: a process started with --resolve-all (so the record was loaded
\* from the file an earlier process wrote) has sent the resolve payload of a
\* record whose open payload had a null host and a defaulted environment.
C1_Witness ==
    /\ delivered.kind = "resolve"
    /\ auto_all
    /\ origin[delivered.idx]["host"] = None
    /\ origin[delivered.idx]["environment"] = Str("production")
    /\ delivered.payload["host"] = None

\* C2: in every step the status of a record of the in-memory ledger either
\* stays as it is or goes from "critical" to "ok", and it changes only in a
\* step in which send_to_bigpanda returned success for the resolve payload
\* built from that record.
C2_StatusMonotone ==
    [][\A i \in 1..Len(sent_alerts) :
          (i <= Len(sent_alerts') /\ sent_alerts'[i]["status"] # sent_alerts[i]["status"])
          => /\ sent_alerts[i]["status"] = Str("critical")
             /\ sent_alerts'[i]["status"] = Str("ok")
             /\ delivered'.kind = "resolve"
             /\ delivered'.ok
             /\ delivered'.idx = i
             /\ delivered'.payload = OkPayload(sent_alerts[i], clock)]_vars

\* C2 witness: a record is "ok" after the successful delivery of its resolve payload.
C2_Witness ==
    /\ delivered.kind = "resolve"
    /\ delivered.ok
    /\ sent_alerts[delivered.idx]["status"] = Str("ok")

\* C3: a step of generate_and_send_flow that calls send_to_bigpanda appends
\* exactly one record, with status "critical", when the call succeeded, and
\* leaves the in-memory ledger and the ledger file as they are when it failed;
\* no other step of a running process makes the ledger longer; and when
\* track_sent_alert returns the ledger file holds the ledger with the new record.
C3_TrackIffDelivered ==
    [][/\ (pc = "menu" /\ delivered'.kind = "open") =>
            IF delivered'.ok
            THEN /\ Len(sent_alerts') = Len(sent_alerts) + 1
                 /\ SubSeq(sent_alerts', 1, Len(sent_alerts)) = sent_alerts
                 /\ sent_alerts'[Len(sent_alerts')]["status"] = Str("critical")
                 /\ pc' = "save_open"
            ELSE sent_alerts' = sent_alerts /\ file' = file /\ pc' = "loop"
       /\ (pc # "off" /\ Len(sent_alerts') > Len(sent_alerts)) =>
            (pc = "menu" /\ delivered'.kind = "open" /\ delivered'.ok)
       /\ (last' = "track" /\ last # "track") =>
            /\ file'.exists /\ file'.complete
            /\ JsonLoad(file'.body) = sent_alerts'
            /\ delivered'.kind = "open" /\ delivered'.ok
            /\ delivered'.idx = Len(sent_alerts')]_vars

\* C3 witness: track_sent_alert has returned after a successful delivery, and
\* the ledger and the file hold two records, the new one "critical".
C3_Witness ==
    /\ last = "track"
    /\ Len(sent_alerts) = 2
    /\ sent_alerts[2]["status"] = Str("critical")
    /\ Len(file.body) = 2


\* C4 (as claimed): a delivery of resolve_alerts that fails leaves its record
\* as it was, with status "critical" and without resolved_at, and when the
\* batch has been saved every record with a failed delivery is still active
\* (so the next resolve pass lists it again).
C4_FailedResolveStaysActive ==
    [][/\ (pc = "resolving" /\ Len(results') = Len(results) + 1 /\ ~delivered'.ok) =>
            LET i == delivered'.idx
            IN  /\ sent_alerts'[i] = sent_alerts[i]
                /\ sent_alerts'[i]["status"] = Str("critical")
                /\ "resolved_at" \notin DOMAIN sent_alerts'[i]
       /\ (last' = "resolve" /\ last # "resolve") =>
            \A j \in 1..Len(results') :
                ~results'[j] => IsActive(sent_alerts'[to_resolve'[j]])]_vars

\* the positions of to_resolve that have been processed and share the record of position j
SameRecord(j) ==
    {j2 \in 1..Len(results) : to_resolve[j2] = to_resolve[j]}

\* C5: the loop of resolve_alerts makes one delivery attempt for every entry
\* of to_resolve whatever the earlier outcomes were (when the batch is saved
\* there are as many outcomes as entries), and at every point of the batch and
\* after it a selected record has status "ok" exactly when one of its
\* deliveries so far succeeded: a failure neither ends the loop nor undoes a success.
C5_BatchIndependent ==
    to_resolve # <<>> =>
        /\ pc # "resolving" => Len(results) = Len(to_resolve)
        /\ \A j \in 1..Len(to_resolve) :
              (sent_alerts[to_resolve[j]]["status"] = Str("ok"))
              <=> (\E j2 \in SameRecord(j) : results[j2])

\* C5 witness (partial resolve failure): a batch of two records has returned,
\* the first delivery failed, the second succeeded; the first record is still
\* "critical" and the second is "ok".
C5_Witness ==
    /\ last = "resolve"
    /\ to_resolve = <<1, 2>>
    /\ results = <<FALSE, TRUE>>
    /\ sent_alerts[1]["status"] = Str("critical")
    /\ sent_alerts[2]["status"] = Str("ok")

\* C6: when track_sent_alert or a resolve batch has returned, the ledger file
\* is a complete document whose records are those of the in-memory ledger, in
\* the same order, with the same status and resolved_at.
C6_FileEqualsMemory ==
    last \in {"track", "resolve"} =>
        /\ file.exists /\ file.complete
        /\ JsonLoad(file.body) = sent_alerts

\* C6 witness: a resolve batch has returned and left one record "ok" with
\* resolved_at and another still "critical".
C6_Witness ==
    /\ last = "resolve"
    /\ Len(sent_alerts) = 2
    /\ \E i \in 1..2 : /\ sent_alerts[i]["status"] = Str("ok")
                       /\ "resolved_at" \in DOMAIN sent_alerts[i]
                       /\ sent_alerts[3 - i]["status"] = Str("critical")

\* the ledger file is absent or holds a complete document
FileIntact == ~file.exists \/ file.complete

\* the ledger a process would load from the file
FileLedger == LoadSentAlerts(file)

\* the number of single mutations (one appended record, one changed record)
\* by which the ledger mem differs from the ledger disk
Mutations(mem, disk) ==
    IF Len(mem) < Len(disk) THEN Len(disk) + 1
    ELSE (Len(mem) - Len(disk))
         + Cardinality({i \in 1..Len(disk) : mem[i] # disk[i]})

ResolvedInBatch ==
    {to_resolve[j] : j \in {j2 \in 1..Len(results) : results[j2]}}

C8_ResolveIdempotent ==
    [][(pc = "resolving" /\ Len(results') = Len(results) + 1) =>
          LET i == delivered'.idx
          IN  /\ IsActive(sent_alerts[i])
              /\ "resolved_at" \in DOMAIN sent_alerts[i] =>
                    sent_alerts'[i]["resolved_at"] = sent_alerts[i]["resolved_at"]]_vars

\* C9 (as claimed): after a KeyboardInterrupt has ended the process, the
\* ledger file is absent or holds a complete document.
C9_InterruptKeepsLedgerFile ==
    (pc = "off" /\ ended = "interrupt") => FileIntact

\* a start_time that datetime.fromisoformat parses, with or without an offset
ParsesAsIso(v) == v.t = "str" /\ v.s \in {"iso:Z", "iso:offset", "iso:naive"}

\* the instant such a start_time names (a reading without offset taken as UTC)
InstantOf(v) == v.n - v.o

\* C10 (as claimed): of the active events of the feed whose start_time parses,
\* fetch_events drops exactly those that start after now or before
\* now - MAX_EVENT_AGE_HOURS, and keeps those that start at now or at the cutoff.
C10_TimeWindow ==
    pc = "fetched" =>
        \A i \in 1..Len(feed) :
            LET e == feed[i]
            IN  (/\ Truthy(GetOr(e, "is_active", PyBool(FALSE)))
                 /\ "start_time" \in DOMAIN e
                 /\ ParsesAsIso(e["start_time"]))
                => ((\E j \in 1..Len(events) : events[j] = e)
                    <=> ~(\/ InstantOf(e["start_time"]) > clock
                          \/ InstantOf(e["start_time"]) < clock - MAX_EVENT_AGE_HOURS))

\* f maps the positions of a sequence of length n, in order, to positions of
\* a sequence of length m
Increasing(f, n) == \A j1, j2 \in 1..n : j1 < j2 => f[j1] < f[j2]

\* e.get("is_active") is the JSON value true
IsActiveTrue(e) == Get(e, "is_active") = PyBool(TRUE)

\* C11: what fetch_events returns is a subsequence of the feed (its elements
\* are events of the feed, in the feed's order) all of whose events have
\* is_active true; an event whose is_active is false, null or absent is not
\* in it, whatever its start_time.
C11_OnlyActiveInOrder ==
    pc = "fetched" =>
        /\ \E f \in [1..Len(events) -> 1..Len(feed)] :
              /\ Increasing(f, Len(events))
              /\ \A j \in 1..Len(events) :
                    events[j] = feed[f[j]] /\ IsActiveTrue(events[j])
        /\ \A i \in 1..Len(feed) :
              ~IsActiveTrue(feed[i]) => \A j \in 1..Len(events) : events[j] # feed[i]

\* C11 witness: of a feed of an inactive event with an unparseable start_time
\* and an active event, fetch_events has returned the active one alone.
C11_Witness ==
    /\ pc = "fetched"
    /\ Len(feed) = 2
    /\ Get(feed[1], "is_active") = PyBool(FALSE)
    /\ Get(feed[1], "start_time") = Str("yesterday")
    /\ events = <<feed[2]>>

\* the start_time of e is absent, empty or does not parse as a timestamp
Unparseable(e) ==
    \/ "start_time" \notin DOMAIN e
    \/ ~ParsesAsIso(e["start_time"])

\* C12 (as claimed): fetch_events never raises in its loop, and it keeps every
\* active event whose start_time is absent, empty or unparseable, of any type;
\* an empty feed gives an empty result.
C12_FailOpenNeverRaises ==
    /\ pc # "raised"
    /\ pc = "fetched" =>
          /\ \A i \in 1..Len(feed) :
                (IsActiveTrue(feed[i]) /\ Unparseable(feed[i]))
                => \E j \in 1..Len(events) : events[j] = feed[i]
          /\ feed = <<>> => events = <<>>
\* C13 (as claimed): the start of a process never ends in an error of
\* _load_sent_alerts, and when it has loaded the ledger, the in-memory ledger
\* is empty if the file is missing, is not a complete JSON document or cannot
\* be read, and is the sequence of the records stored in the file otherwise.
C13_LoadNeverRaises ==
    /\ ended # "error"
    /\ last = "startup" =>
          sent_alerts = IF ~file.exists \/ ~file.complete \/ file.read # "ok"
                        THEN <<>>
                        ELSE JsonLoad(file.body)
\* the ledger: that of the running process, or, when no process runs, the one
\* the next process will load
TheLedger == IF pc = "off" THEN LoadSentAlerts(file) ELSE sent_alerts

\* how many records of the ledger, from the first on, have been persisted:
\* all of them, but for the record track_sent_alert has appended and not yet saved
PersistedLen ==
    IF pc \in {"save_open", "save_write"} /\ to_resolve = <<>>
    THEN Len(sent_alerts) - 1
    ELSE Len(TheLedger)

\* record b is record a, or a with another status and resolved_at
SameButStatus(a, b) ==
    /\ DOMAIN b \ {"resolved_at"} = DOMAIN a \ {"resolved_at"}
    /\ \A k \in DOMAIN a \ {"status", "resolved_at"} : b[k] = a[k]

\* C14 (as claimed): no step removes a persisted record from the ledger: the
\* records persisted before the step are in the ledger after it, in the same
\* relative order, each one unchanged or changed in status and resolved_at only.
C14_NeverRemoved ==
    [][\E f \in [1..PersistedLen -> 1..Len(TheLedger')] :
          /\ Increasing(f, PersistedLen)
          /\ \A i \in 1..PersistedLen :
                SameButStatus(TheLedger[i], TheLedger'[f[i]])]_vars
\* the default the payload is said to hold for a string field
NamedDefault(k) ==
    CASE k = "host" -> Str("unknown-host")
      [] k = "check" -> Str("unknown_check")
      [] k = "description" -> Str("No description")
      [] k = "environment" -> Str("production")
      [] OTHER -> Str("")

\* the value a default-filling builder gives field k of the generated alert g
DefaultFilled(g, k) ==
    IF k = "known_dependencies"
    THEN IF k \in DOMAIN g /\ g[k].t = "list" THEN g[k]
         ELSE IF k \in DOMAIN g /\ g[k].t = "str" THEN PyList(<<g[k].s>>)
         ELSE PyList(<<>>)
    ELSE IF k \in DOMAIN g /\ g[k].t = "str" THEN g[k]
         ELSE NamedDefault(k)

\* C15 (as claimed): every field of the payload build_bigpanda_payload returns
\* holds the generated alert's value when that is present and well-shaped (a
\* str, for known_dependencies a list or a str to wrap) and the named default
\* when it is absent, null or not a str.
C15_DefaultFilling ==
    delivered.kind = "open" =>
        \A k \in GenKeys : delivered.payload[k] = DefaultFilled(delivered.source, k)

\* the keys the resolve payload is said to have
ResolveKeys ==
    {"status", "host", "check", "description", "service", "application", "cluster",
     "instance", "location", "environment", "eo_correlator", "timestamp"}

\* C16: the resolve payload resolve_alerts sends for a tracked record has
\* exactly the twelve keys status, host, check, description, service,
\* application, cluster, instance, location, environment, eo_correlator and
\* timestamp (none of the record's other fields), status "ok", and the
\* description "Resolved: " followed by the description of the open payload
\* (as str() renders it).
C16_ResolvePayloadShape ==
    delivered.kind = "resolve" =>
        /\ DOMAIN delivered.payload = ResolveKeys
        /\ delivered.payload["status"] = Str("ok")
        /\ delivered.payload["description"] =
              Str("Resolved: " \o PyStr(origin[delivered.idx]["description"]))

\* C16 witness: the resolve payload of a record that has cloud, ITSM,
\* sent_at and based_on_event fields and the description "description-1".
C16_Witness ==
    /\ delivered.kind = "resolve"
    /\ {"cloud_region", "known_dependencies", "sent_at", "based_on_event"}
          \subseteq DOMAIN delivered.source
    /\ origin[delivered.idx]["description"] = Str("description-1")
    /\ delivered.payload["description"] = Str("Resolved: description-1")

\* C17: every payload send_to_bigpanda is called with, open or resolve, has
\* eo_correlator "true", as timestamp the integer reading of the clock at the
\* time it is built, and status "critical" or "ok", whatever keys the
\* generated alert or the tracked record has.
C17_FixedMarkerAndTimestamp ==
    [][(delivered' # delivered /\ delivered'.kind # "none") =>
          /\ delivered'.payload["eo_correlator"] = Str("true")
          /\ delivered'.payload["timestamp"] = PyInt(clock)
          /\ delivered'.payload["status"] \in {Str("critical"), Str("ok")}]_vars

\* C17 witness: an open payload was built from a generated alert that has
\* keys status, eo_correlator and timestamp of its own.
C17_Witness ==
    /\ delivered.kind = "open"
    /\ {"status", "eo_correlator", "timestamp"} \subseteq DOMAIN delivered.source
    /\ delivered.source["eo_correlator"] = Str("false")
    /\ delivered.payload["eo_correlator"] = Str("true")
\* C18: while a process runs, every record of the ledger is in exactly one of
\* the active list (status != "ok") and the resolved list (status == "ok") of
\* show_sent_alerts, the two lists together are as long as the ledger, the
\* active count of the main menu is the number of records show_sent_alerts
\* numbers for selection, and a resolve pass that takes all of them has
\* exactly that many records to resolve.
C18_ActiveResolvedPartition ==
    pc # "off" =>
        /\ \A i \in 1..Len(sent_alerts) :
              IsActive(sent_alerts[i]) <=> ~IsResolved(sent_alerts[i])
        /\ Len(SelectSeq(sent_alerts, IsActive)) + Len(SelectSeq(sent_alerts, IsResolved))
              = Len(sent_alerts)
        /\ active_count(sent_alerts) = Len(ActiveIndices(sent_alerts, 1))
        /\ (pc = "resolving" /\ auto_all /\ results = <<>>) =>
              /\ Len(to_resolve) = active_count(sent_alerts)
              /\ \A j \in 1..Len(to_resolve) : IsActive(sent_alerts[to_resolve[j]])

\* C18 witness: a quick resolve begins on a ledger of one resolved and one
\* active record: the one active record is what it has to resolve.
C18_Witness ==
    /\ pc = "resolving"
    /\ auto_all
    /\ results = <<>>
    /\ Len(sent_alerts) = 2
    /\ IsResolved(sent_alerts[1])
    /\ to_resolve = <<2>>
    /\ active_count(sent_alerts) = 1
\* C19: a run of generate_and_send_flow in which generate_internal_alert
\* returns no record, at the first attempt or at the regenerate attempt,
\* calls send_to_bigpanda for no payload and leaves the in-memory ledger
\* and the ledger file as they are.
C19_GenerationFailureIsInert ==
    [][(pc = "menu" /\ last' \in {"generation_failed", "regeneration_failed"}) =>
          /\ delivered' = NoDelivery
          /\ clock' = clock
          /\ sent_alerts' = sent_alerts
          /\ file' = file
          /\ pc' = "loop"]_vars

\* C19 witness: with one record in the ledger and in the file, the flow has
\* returned after the regenerate attempt failed.
C19_Witness ==
    /\ last = "regeneration_failed"
    /\ Len(sent_alerts) = 1
    /\ file = Document(JsonDump(sent_alerts))
    /\ delivered = NoDelivery
\* a credential is set and is no placeholder
CredentialGiven(value) ==
    value # <<>> /\ Head(value) \notin {"your_", "sk-your", "BPUAK-your"}

\* every required credential is given
ConfigComplete(cfg) ==
    /\ CredentialGiven(cfg.bp_org_token)
    /\ CredentialGiven(cfg.bp_app_key)
    /\ CredentialGiven(cfg.openai_api_key)

\* C20: a process whose configuration lacks a required credential, or has a
\* placeholder for one, goes from its start straight to the return of run
\* and from there to its end, whatever flags it was given: it never is at
\* the menu, in a resolve pass, in the OIM setup or in a save, it calls
\* send_to_bigpanda for no payload and it leaves the ledger file as it is.
C20_ConfigErrorIsFatal ==
    [][/\ (pc = "off" /\ pc' # "off" /\ ~ConfigComplete(config')) =>
            /\ pc' = "exit"
            /\ last' = "config_help"
            /\ file' = file /\ clock' = clock /\ delivered' = NoDelivery
       /\ (pc # "off" /\ ~ConfigComplete(config)) =>
            /\ pc = "exit" /\ pc' = "off"
            /\ file' = file /\ clock' = clock /\ delivered' = NoDelivery]_vars

\* C20 witness: a process started with --resolve-all and a placeholder for
\* the organisation token, on a ledger with an active record, is at the
\* return of run with the record still active.
C20_Witness ==
    /\ pc = "exit"
    /\ last = "config_help"
    /\ config.resolve_all
    /\ StartsWith(config.bp_org_token, "BPUAK-your")
    /\ Len(sent_alerts) = 1
    /\ IsActive(sent_alerts[1])
    /\ file = Document(JsonDump(sent_alerts))
\* the process runs the interactive loop: its credentials are complete and
\* it was given neither --resolve-all nor --setup-oim
Interactive(cfg) == ConfigComplete(cfg) /\ ~cfg.resolve_all /\ ~cfg.setup_oim

\* C21 (as claimed): a process with complete credentials and no flag goes
\* from its start to the menu loop, and it ends only by the exit choice at
\* the menu (or by the operator's interrupt): no error in a menu operation
\* ends it.
C21_LoopSurvivesErrors ==
    [][/\ (pc = "off" /\ pc' # "off" /\ Interactive(config')) => pc' = "loop"
       /\ (pc # "off" /\ pc' = "off" /\ Interactive(config)) =>
            /\ ended' \in {"exit", "interrupt"}
            /\ ended' = "exit" => pc = "menu"]_vars
\* C22 (as claimed): a process started with --resolve-all and complete
\* credentials, all of whose deliveries succeed (and that is neither
\* interrupted nor refused the ledger file by the system), ends by the return
\* of run with every record of its ledger at status "ok" with resolved_at,
\* and the ledger a new process loads from the file is that ledger: it has
\* no active record.
C22_QuickResolveAll ==
    [][(/\ pc # "off" /\ pc' = "off"
        /\ ConfigComplete(config) /\ config.resolve_all
        /\ ended' # "interrupt"
        /\ pc # "save_open"
        /\ \A j \in 1..Len(results) : results[j]) =>
          /\ ended' = "exit"
          /\ \A i \in 1..Len(sent_alerts) :
                IsResolved(sent_alerts[i]) /\ "resolved_at" \in DOMAIN sent_alerts[i]
          /\ LoadSentAlerts(file') = sent_alerts
          /\ active_count(LoadSentAlerts(file')) = 0]_vars
\* the ledger file holds a complete document that can be read
HoldsDocument(f) == f.exists /\ f.complete /\ f.read = "ok"

\* C23: a save that follows the load at once leaves a complete document whose
\* value is the ledger that was loaded, whatever the file was (missing,
\* truncated, unreadable or a document); and when the file held a document,
\* the document saved has the same JSON value, record by record and field by field.
C23_LoadSaveIdempotent ==
    [][(pc \in {"loop", "quick", "setup"} /\ pc' = "saved") =>
          /\ HoldsDocument(file')
          /\ JsonLoad(file'.body) = sent_alerts
          /\ HoldsDocument(file) => file'.body = file.body]_vars

\* C23 witness: a document of two records, the first with a null host and
\* a list of dependencies, the second resolved, has been loaded and saved.
C23_Witness ==
    /\ pc = "saved"
    /\ Len(sent_alerts) = 2
    /\ sent_alerts[1]["host"] = None
    /\ sent_alerts[1]["known_dependencies"].t = "list"
    /\ IsResolved(sent_alerts[2])
    /\ file = Document(JsonDump(sent_alerts))
\* C24: a run of generate_and_send_flow that reaches send_to_bigpanda calls
\* it once, with the payload built from the value generated has at that
\* point (after a regenerate the regenerated alert, not the declined draft);
\* it appends one record, holding that payload's fields, when the call
\* succeeded, and returns to the menu without another call when it failed;
\* a run that does not reach the call sends nothing and appends nothing, and
\* the save of track_sent_alert sends and appends nothing more.
C24_OneDeliveryOfLatestGeneration ==
    [][/\ (pc = "menu" /\ delivered'.kind = "open") =>
            /\ clock' = clock + 1
            /\ delivered'.payload =
                  build_bigpanda_payload(delivered'.generated, "critical", clock)
            /\ (~delivered'.draft.none /\ delivered'.draft.dict # delivered'.generated) =>
                  delivered'.payload #
                      build_bigpanda_payload(delivered'.draft.dict, "critical", clock)
            /\ IF delivered'.ok
               THEN /\ Len(sent_alerts') = Len(sent_alerts) + 1
                    /\ \A k \in GenKeys :
                          sent_alerts'[Len(sent_alerts')][k] = delivered'.payload[k]
               ELSE sent_alerts' = sent_alerts /\ pc' = "loop"
       /\ (pc = "menu" /\ pc' # "off" /\ delivered'.kind # "open") =>
            clock' = clock /\ sent_alerts' = sent_alerts
       /\ (pc \in {"save_open", "save_write"} /\ to_resolve = <<>> /\ pc' # "off") =>
            clock' = clock /\ sent_alerts' = sent_alerts]_vars

\* C24 witness: the operator declined a draft, the regenerated alert (another
\* one) was delivered, and track_sent_alert has returned with its record.
C24_Witness ==
    /\ last = "track"
    /\ delivered.ok
    /\ delivered.draft = GenDict(GenFull)
    /\ delivered.generated = GenPartial
    /\ sent_alerts[Len(sent_alerts)]["check"] = Str("check-2")
\* resolved_at is in the record exactly when its status is "ok"
ResolvedAtIffOk(r) == ("resolved_at" \in DOMAIN r) <=> (r["status"] = Str("ok"))

\* C25: every record that track_sent_alert created, in the in-memory ledger
\* and in a complete ledger file, has resolved_at exactly when its status is
\* "ok".
C25_ResolvedAtIffOk ==
    /\ \A i \in 1..Len(sent_alerts) : ResolvedAtIffOk(sent_alerts[i])
    /\ (file.exists /\ file.complete) =>
          LET saved == JsonLoad(file.body)
          IN  \A i \in 1..Len(saved) : ResolvedAtIffOk(saved[i])

\* C25 witness: a later process has loaded a ledger file that holds a resolved
\* record with resolved_at and a critical one without.
C25_Witness ==
    /\ last = "startup"
    /\ Len(sent_alerts) = 2
    /\ file.exists /\ file.complete
    /\ sent_alerts[1]["status"] = Str("ok")
    /\ "resolved_at" \in DOMAIN sent_alerts[1]
    /\ sent_alerts[2]["status"] = Str("critical")
    /\ "resolved_at" \notin DOMAIN sent_alerts[2]
\* what the operations that return without a delivery leave in last
QuietOutcomes ==
    {"view", "setup", "fetch_failed", "no_events", "declined",
     "regenerated_declined", "resolve_cancelled", "resolve_declined",
     "resolve_empty", "resolve_invalid"}

\* C26: show_sent_alerts, setup_oim_integration, a flow whose fetch failed or
\* found nothing or whose confirmation was declined, and a resolve_alerts
\* that was cancelled, declined or selected nothing leave the in-memory
\* ledger and the ledger file as they were and call send_to_bigpanda not
\* once; one of them that raises leaves the file as it was too.
C26_QuietOperations ==
    [][/\ (pc \in {"menu", "setup"} /\ last' \in QuietOutcomes) =>
            /\ sent_alerts' = sent_alerts
            /\ file' = file
            /\ clock' = clock
            /\ delivered' = delivered
       /\ (pc = "menu" /\ pc' = "off" /\ ended' = "error") =>
            file' = file /\ clock' = clock]_vars

\* C26 witness: the operator declined the confirmation of resolve_alerts
\* while the ledger, saved, held a resolved record and an active one.
C26_Witness ==
    /\ last = "resolve_declined"
    /\ Len(sent_alerts) = 2
    /\ IsResolved(sent_alerts[1])
    /\ IsActive(sent_alerts[2])
    /\ file.exists /\ file.complete
    /\ JsonLoad(file.body) = sent_alerts

====
